---- MODULE Spec2Model ----
(***************************************************************************)
(* Per-frame simulation of cubemaps_environment_mapping.cpp: the key       *)
(* table, the car (position, yaw, speed), the wall collision veto and the  *)
(* chase camera.                                                           *)
(*                                                                         *)
(* Numbers.  The program computes in float.  Here every real quantity is   *)
(* a fixed-point integer counting 1/Scale of its unit: lengths in 1/Scale  *)
(* world units, times in 1/Scale seconds, speeds in 1/Scale units per      *)
(* second, angles in 1/Scale degrees.  Sums, differences and comparisons   *)
(* are exact; a product of two quantities is rounded to the nearest        *)
(* representable value (MulS), as a float product is.                      *)
(***************************************************************************)
EXTENDS Integers, Sequences, FiniteSets, TLC

VARIABLES
    keys,        \* set of the keys k with keys[k] == true (line 52)
    deltaTime,   \* line 24
    lastFrame,   \* line 25
    carPos,      \* line 33
    carYaw,      \* line 34
    carSpeed,    \* line 35
    cameraPos,   \* line 29, seeded at lines 236-239
    nextPos,     \* local of the render loop, line 283
    frame,       \* number of loop iterations completed (saturates at MaxFrames)
    boxes,       \* arguments of the last direct call of checkCollision
    overlap      \* its result

vars == <<keys, deltaTime, lastFrame, carPos, carYaw, carSpeed, cameraPos,
          nextPos, frame, boxes, overlap>>

---------------------------------------------------------------------------
(* Fixed-point arithmetic *)

Scale == 10 * 1000

Abs(n) == IF n < 0 THEN -n ELSE n

Min(a, b) == IF a <= b THEN a ELSE b

Max(a, b) == IF a >= b THEN a ELSE b

\* a * b for fixed-point a, b: the exact product rounded to the nearest
\* 1/Scale (ties away from zero).  The larger factor is split into whole and
\* fractional part so that no intermediate exceeds 32 bits.
MulS(a, b) ==
    LET x == Max(Abs(a), Abs(b))
        y == Min(Abs(a), Abs(b))
        q == x \div Scale
        r == x % Scale
        m == q * y + (2 * (r * y) + Scale) \div (2 * Scale)
    IN  IF (a < 0) # (b < 0) THEN -m ELSE m

Vec(x, y, z) == [x |-> x, y |-> y, z |-> z]

VAdd(u, v) == Vec(u.x + v.x, u.y + v.y, u.z + v.z)

VSub(u, v) == Vec(u.x - v.x, u.y - v.y, u.z - v.z)

\* vec3 * float
VScale(u, s) == Vec(MulS(u.x, s), MulS(u.y, s), MulS(u.z, s))

\* sin of 0, 9, 18, ..., 90 degrees, in 1/Scale
SinTable == <<0, 1564, 3090, 4540, 5878, 7071, 8090, 8910, 9511, 9877, 10000>>

SinStep == 9 * Scale

\* sin on [0, 90] degrees: the table, linearly interpolated between entries
SinQuadrant(d) ==
    LET i == d \div SinStep
        f == d % SinStep
    IN  IF f = 0 THEN SinTable[i + 1]
        ELSE SinTable[i + 1]
             + (2 * ((SinTable[i + 2] - SinTable[i + 1]) * f) + SinStep) \div (2 * SinStep)

\* sin(glm::radians(deg)), deg in 1/Scale degrees
Sin(deg) ==
    LET d == deg % (360 * Scale)
    IN  IF d <= 90 * Scale THEN SinQuadrant(d)
        ELSE IF d <= 180 * Scale THEN SinQuadrant(180 * Scale - d)
        ELSE IF d <= 270 * Scale THEN -SinQuadrant(d - 180 * Scale)
        ELSE -SinQuadrant(360 * Scale - d)

\* cos(glm::radians(deg))
Cos(deg) == Sin(deg + 90 * Scale)

---------------------------------------------------------------------------
(* Program constants *)

cameraSmoothSpeed == 6

carSize == Vec(15 * (Scale \div 10), 1 * Scale, 3 * Scale)

wallPos == Vec(0, 2 * Scale, 20 * Scale)

wallSize == Vec(4 * Scale, 4 * Scale, 5 * (Scale \div 10))

MAX_SPEED == 12 * Scale

ACCELERATION == 20

BRAKE == 30

FRICTION == 6

TURN_SPEED == 90

\* the snap-to-zero threshold 0.01f of line 271
SpeedEpsilon == Scale \div 100

\* the keys the frame update reads
Keys == {"W", "S", "A", "D"}

---------------------------------------------------------------------------
(* Bounds of the model *)

\* loop iterations explored by Spec
MaxFrames == 3

\* loop iterations explored by SpecCamera
MaxCameraFrames == 4

\* loop iterations explored by SpecDrive
MaxDriveFrames == 6

\* checkCollision inputs of SpecCollide: centre coordinates in half units,
\* sizes in units
MaxCoord == 2

MaxSize == 2

\* The clock is read only to form deltaTime, which the model chooses
\* directly; lastFrame is kept up to MaxClock and saturates there.
MaxClock == 3 * Scale

\* glfwGetTime() - lastFrame of one iteration: 0, a 0.1 s frame, a 1.5 s stall
DeltaTimes == {0, Scale \div 10, 15 * (Scale \div 10)}

---------------------------------------------------------------------------
(* The program *)

\* checkCollision with <= for <: touching boxes count as overlapping
checkCollisionClosed(posA, sizeA, posB, sizeB) ==
    /\ Abs(posA.x - posB.x) * 2 <= sizeA.x + sizeB.x
    /\ Abs(posA.y - posB.y) * 2 <= sizeA.y + sizeB.y
    /\ Abs(posA.z - posB.z) * 2 <= sizeA.z + sizeB.z

\* lines 61-67
checkCollision(posA, sizeA, posB, sizeB) ==
    /\ Abs(posA.x - posB.x) * 2 < sizeA.x + sizeB.x
    /\ Abs(posA.y - posB.y) * 2 < sizeA.y + sizeB.y
    /\ Abs(posA.z - posB.z) * 2 < sizeA.z + sizeB.z

\* lines 251-253
AccelInput(ks) ==
    (IF "W" \in ks THEN 1 ELSE 0) - (IF "S" \in ks THEN 1 ELSE 0)

\* lines 256-258
SteerInput(ks) ==
    (IF "A" \in ks THEN 1 ELSE 0) - (IF "D" \in ks THEN 1 ELSE 0)

\* lines 261-269
UpdateSpeed(speed, accelInput, dt) ==
    IF accelInput > 0 THEN speed + ACCELERATION * accelInput * dt
    ELSE IF accelInput < 0 THEN speed - BRAKE * (-accelInput) * dt
    ELSE IF speed > 0 THEN speed - FRICTION * dt
    ELSE IF speed < 0 THEN speed + FRICTION * dt
    ELSE speed

\* ClampSpeed with the reverse limit at -MAX_SPEED
ClampSpeedSymmetric(speed) ==
    LET s1 == IF Abs(speed) < SpeedEpsilon THEN 0 ELSE speed
        s2 == IF s1 > MAX_SPEED THEN MAX_SPEED ELSE s1
    IN  IF s2 < -MAX_SPEED THEN -MAX_SPEED ELSE s2

\* lines 271-274
ClampSpeed(speed) ==
    LET s1 == IF Abs(speed) < SpeedEpsilon THEN 0 ELSE speed
        s2 == IF s1 > MAX_SPEED THEN MAX_SPEED ELSE s1
    IN  IF s2 < -(MAX_SPEED \div 2) THEN -(MAX_SPEED \div 2) ELSE s2

\* line 277
TurnAmount(speed, dt) ==
    TURN_SPEED * (IF speed >= 0 THEN 1 ELSE -1) * dt

\* line 281 (and 237)
Forward(yaw) == Vec(Sin(yaw), 0, Cos(yaw))

\* line 283
TentativePos(pos, fwd, speed, dt) == VAdd(pos, VScale(VScale(fwd, speed), dt))

\* CommitPos without the collision veto
CommitAlways(hit, pos, next) == next

\* lines 286-287: the move is committed only when the tentative box is clear
CommitPos(hit, pos, next) == IF ~hit THEN next ELSE pos

\* CollisionSpeed without the stop
CollisionKeepsSpeed(hit, speed) == speed

\* lines 288-290: a vetoed move stops the car
CollisionSpeed(hit, speed) == IF hit THEN 0 ELSE speed

\* line 298 (and 238)
DesiredCameraPos(pos, fwd) ==
    VAdd(VSub(pos, VScale(fwd, 8 * Scale)), Vec(0, 3 * Scale, 0))

\* SmoothFactor without glm::clamp
SmoothFactorUnclamped(dt) == cameraSmoothSpeed * dt

\* line 300: glm::clamp(cameraSmoothSpeed * deltaTime, 0.0f, 1.0f)
SmoothFactor(dt) == Min(Max(cameraSmoothSpeed * dt, 0), Scale)

\* glm::mix(x, y, a) = x * (1 - a) + y * a, each product rounded
Mix(x, y, a) == MulS(x, Scale - a) + MulS(y, a)

VMix(u, v, a) == Vec(Mix(u.x, v.x, a), Mix(u.y, v.y, a), Mix(u.z, v.z, a))

\* lines 394-402, for the keys the loop reads
KeyTable(ks, key, action) ==
    IF action = "PRESS" THEN ks \cup {key}
    ELSE IF action = "RELEASE" THEN ks \ {key}
    ELSE ks

\* lines 24-52 and 236-239
Init ==
    /\ keys = {}
    /\ deltaTime = 0
    /\ lastFrame = 0
    /\ carPos = Vec(0, 0, 0)
    /\ carYaw = 0
    /\ carSpeed = 0
    /\ cameraPos = DesiredCameraPos(Vec(0, 0, 0), Forward(0))
    /\ nextPos = Vec(0, 0, 0)
    /\ frame = 0
    /\ boxes = <<Vec(0, 0, 0), carSize, wallPos, wallSize>>
    /\ overlap = checkCollision(Vec(0, 0, 0), carSize, wallPos, wallSize)

\* One iteration of the render loop (lines 244-301) in which glfwGetTime()
\* returns lastFrame + dt; frame counts the iterations up to cap.  The
\* locals speed1 (carSpeed after line 274), yaw1, fwd (forward), np
\* (nextPos), hit and pos1 are each bound to their one value.
FrameStep(dt, cap) ==
    \E speed1 \in {ClampSpeed(UpdateSpeed(carSpeed, AccelInput(keys), dt))} :
    \E yaw1 \in {carYaw + SteerInput(keys) * TurnAmount(speed1, dt)} :
    \E fwd \in {Forward(yaw1)} :
    \E np \in {TentativePos(carPos, fwd, speed1, dt)} :
    \E hit \in {checkCollision(np, carSize, wallPos, wallSize)} :
    \E pos1 \in {CommitPos(hit, carPos, np)} :
        /\ deltaTime' = dt
        /\ lastFrame' = Min(lastFrame + dt, MaxClock)
        /\ carYaw' = yaw1
        /\ nextPos' = np
        /\ carPos' = pos1
        /\ carSpeed' = CollisionSpeed(hit, speed1)
        /\ cameraPos' = VMix(cameraPos, DesiredCameraPos(pos1, fwd), SmoothFactor(dt))
        /\ frame' = Min(frame + 1, cap)
        /\ UNCHANGED <<keys, boxes, overlap>>

\* key_callback(key, action), run by glfwPollEvents (line 374), which the
\* loop first reaches at the end of its first iteration
KeyEvent(key, action) ==
    /\ frame > 0
    /\ keys' = KeyTable(keys, key, action)
    /\ UNCHANGED <<deltaTime, lastFrame, carPos, carYaw, carSpeed, cameraPos,
                   nextPos, frame, boxes, overlap>>

\* The first iteration: no key callback has run yet; the clock reads 0.
FirstFrame ==
    /\ frame = 0
    /\ FrameStep(0, 1)

---------------------------------------------------------------------------
(* Spec: any keys, any of DeltaTimes, MaxFrames iterations *)

Frame ==
    /\ frame < MaxFrames
    /\ \E dt \in DeltaTimes : FrameStep(dt, MaxFrames)

KeyCallback ==
    \E key \in Keys, action \in {"PRESS", "RELEASE"} : KeyEvent(key, action)

Next == Frame \/ KeyCallback

Spec == Init /\ [][Next]_vars

---------------------------------------------------------------------------
(* Properties of Spec *)

\* a step of Spec that is one loop iteration
IsFrame == frame' = frame + 1

\* the car's box at its committed position overlaps the wall's box
CarInWall == checkCollision(carPos, carSize, wallPos, wallSize)

\* the last iteration's tentative position overlapped the wall's box
Vetoed == frame > 0 /\ checkCollision(nextPos, carSize, wallPos, wallSize)

\* C1: in every frame the tentative position is the old position plus
\* forward * speed * deltaTime, formed after the speed and heading updates;
\* if the car's box there overlaps the wall's box the position is unchanged
\* and the speed is exactly 0, otherwise the tentative position is committed.
CollisionVeto ==
    [][IsFrame =>
         /\ nextPos' = TentativePos(carPos, Forward(carYaw'),
                          ClampSpeed(UpdateSpeed(carSpeed, AccelInput(keys), deltaTime')),
                          deltaTime')
         /\ IF checkCollision(nextPos', carSize, wallPos, wallSize)
            THEN carPos' = carPos /\ carSpeed' = 0
            ELSE carPos' = nextPos']_vars

\* C1 witness: a frame was vetoed while the car was moving towards the wall
CollisionVetoWitness ==
    /\ Vetoed
    /\ carPos # nextPos
    /\ carSpeed = 0

\* C2 as stated: in a coasting frame (no net accel input) friction never
\* reverses the direction of travel and never increases the magnitude of
\* the speed.
FrictionNeverReverses ==
    [][(IsFrame /\ AccelInput(keys) = 0) =>
         /\ (carSpeed > 0 => carSpeed' >= 0)
         /\ (carSpeed < 0 => carSpeed' <= 0)
         /\ Abs(carSpeed') <= Abs(carSpeed)]_vars

\* C4: at the end of every frame the speed lies in
\* [-MAX_SPEED * 0.5, MAX_SPEED].
SpeedInRange ==
    /\ carSpeed >= -(MAX_SPEED \div 2)
    /\ carSpeed <= MAX_SPEED

\* C4 witness: reverse input held through a frame has floored the speed at
\* exactly -MAX_SPEED * 0.5
SpeedInRangeWitness ==
    /\ frame > 0
    /\ AccelInput(keys) < 0
    /\ carSpeed = -(MAX_SPEED \div 2)
    /\ BRAKE * deltaTime > MAX_SPEED \div 2

\* C9: the car's box at its committed position never overlaps the wall's box.
NeverInsideWall == ~CarInWall

\* C9 witness: with forward held the car was driven at the wall, the move was
\* vetoed, and the car stands clear of the wall
NeverInsideWallWitness ==
    /\ Vetoed
    /\ "W" \in keys
    /\ nextPos.z > carPos.z
    /\ ~CarInWall

---------------------------------------------------------------------------
(* SpecCollide: checkCollision applied once to inputs drawn from bounded  *)
(* sets                                                                    *)

CoordSet == {k * (Scale \div 2) : k \in -MaxCoord..MaxCoord}

SizeSet == {k * Scale : k \in 1..MaxSize}

CallCheckCollision ==
    /\ boxes = <<Vec(0, 0, 0), carSize, wallPos, wallSize>>
    /\ \E posA \in [x : CoordSet, y : CoordSet, z : CoordSet],
          sizeA \in [x : SizeSet, y : SizeSet, z : SizeSet],
          posB \in {Vec(0, 0, 0), Vec(Scale \div 2, 0, -Scale)},
          sizeB \in {Vec(Scale, Scale, Scale), wallSize} :
          /\ boxes' = <<posA, sizeA, posB, sizeB>>
          /\ overlap' = checkCollision(posA, sizeA, posB, sizeB)
    /\ UNCHANGED <<keys, deltaTime, lastFrame, carPos, carYaw, carSpeed,
                   cameraPos, nextPos, frame>>

SpecCollide == Init /\ [][CallCheckCollision]_vars

Axes == {"x", "y", "z"}

\* on axis c the open extents of the two boxes of the last call intersect
ExtentsMeet(c) ==
    /\ 2 * boxes[1][c] - boxes[2][c] < 2 * boxes[3][c] + boxes[4][c]
    /\ 2 * boxes[3][c] - boxes[4][c] < 2 * boxes[1][c] + boxes[2][c]

\* on axis c the two boxes of the last call exactly touch
Touching(c) ==
    Abs(boxes[1][c] - boxes[3][c]) * 2 = boxes[2][c] + boxes[4][c]

\* C7: checkCollision returns true iff the boxes' extents intersect strictly
\* on all three axes; boxes that exactly touch on an axis are reported as not
\* overlapping, whatever the other two axes are.
StrictOverlap ==
    /\ overlap = (\A c \in Axes : ExtentsMeet(c))
    /\ (\E c \in Axes : Touching(c)) => overlap = FALSE

\* C7 witness: the boxes touch on one axis, their extents intersect on the
\* other two, and the call returned false
StrictOverlapWitness ==
    /\ \E c \in Axes : Touching(c) /\ \A d \in Axes \ {c} : ExtentsMeet(d)
    /\ boxes[1] # Vec(0, 0, 0)
    /\ overlap = FALSE

---------------------------------------------------------------------------
(* SpecCamera: forward and left-steer keys, frames of 0.05 s, 0.125 s and  *)
(* a 1.5 s stall                                                           *)

CameraDeltaTimes ==
    {5 * (Scale \div 100), 125 * (Scale \div 1000), 15 * (Scale \div 10)}

CameraFrame ==
    /\ frame < MaxCameraFrames
    /\ \E dt \in CameraDeltaTimes : FrameStep(dt, MaxCameraFrames)

CameraKey ==
    \E key \in {"W", "A"}, action \in {"PRESS", "RELEASE"} : KeyEvent(key, action)

SpecCamera == Init /\ [][CameraFrame \/ CameraKey]_vars

\* |u - v|^2 as <<c2, c1, c0>>, value c2 * Scale^2 + c1 * Scale + c0
DistSq(u, v) ==
    LET dx == Abs(u.x - v.x)
        dy == Abs(u.y - v.y)
        dz == Abs(u.z - v.z)
        hh == (dx \div Scale) * (dx \div Scale) + (dy \div Scale) * (dy \div Scale)
              + (dz \div Scale) * (dz \div Scale)
        hl == 2 * ((dx \div Scale) * (dx % Scale) + (dy \div Scale) * (dy % Scale)
                   + (dz \div Scale) * (dz % Scale))
        ll == (dx % Scale) * (dx % Scale) + (dy % Scale) * (dy % Scale)
              + (dz % Scale) * (dz % Scale)
        t1 == hl + ll \div Scale
    IN  <<hh + t1 \div Scale, t1 % Scale, ll % Scale>>

LexLeq(s, t) ==
    \/ s[1] < t[1]
    \/ s[1] = t[1] /\ s[2] < t[2]
    \/ s[1] = t[1] /\ s[2] = t[2] /\ s[3] <= t[3]

\* the camera's target for the current state (line 298)
Desired == DesiredCameraPos(carPos, Forward(carYaw))

\* a loop iteration that leaves the vehicle's position and heading fixed
FixedVehicleFrame == IsFrame /\ carPos' = carPos /\ carYaw' = carYaw

\* C8 as stated: in a frame that leaves the vehicle's position and heading
\* fixed the camera ends no farther from the desired position than it
\* started, and exactly on it when cameraSmoothSpeed * deltaTime >= 1.
CameraNeverFarther ==
    [][FixedVehicleFrame =>
         /\ LexLeq(DistSq(cameraPos', Desired'), DistSq(cameraPos, Desired'))
         /\ (cameraSmoothSpeed * deltaTime' >= Scale => cameraPos' = Desired')]_vars

\* C8 amended: in such a frame each coordinate of the camera ends at most
\* one rounding step farther from the desired position than it started, and
\* the camera ends exactly on the desired position when
\* cameraSmoothSpeed * deltaTime >= 1.
CameraWithinRounding ==
    [][FixedVehicleFrame =>
         /\ \A c \in Axes :
               Abs(cameraPos'[c] - Desired'[c]) <= Abs(cameraPos[c] - Desired'[c]) + 1
         /\ (cameraSmoothSpeed * deltaTime' >= Scale => cameraPos' = Desired')]_vars

\* C8 witness: the car has been driven away from the origin and is at rest,
\* and a stall frame (cameraSmoothSpeed * deltaTime >= 1) has put the
\* camera exactly on the desired position
CameraWithinRoundingWitness ==
    /\ frame > 1
    /\ carPos # Vec(0, 0, 0)
    /\ carSpeed = 0
    /\ SteerInput(keys) = 0
    /\ cameraSmoothSpeed * deltaTime >= Scale
    /\ cameraPos = Desired

---------------------------------------------------------------------------
(* SpecDrive: the wall scenario.  After the first iteration forward is     *)
(* pressed and held, nothing else is pressed, and every later frame takes  *)
(* a positive time: 0.4 ms, 0.1 s, 0.5 s or a 1.5 s stall.                 *)

DriveDeltaTimes ==
    {4 * (Scale \div 10000), Scale \div 10, 5 * (Scale \div 10), 15 * (Scale \div 10)}

DrivePress ==
    /\ keys = {}
    /\ KeyEvent("W", "PRESS")

DriveFrame ==
    /\ keys = {"W"}
    /\ frame < MaxDriveFrames
    /\ \E dt \in DriveDeltaTimes : FrameStep(dt, MaxDriveFrames)

SpecDrive == Init /\ [][FirstFrame \/ DrivePress \/ DriveFrame]_vars

\* z of the car's centre when its forward face is on the wall's near face
WallStop == wallPos.z - wallSize.z \div 2 - carSize.z \div 2

\* C3 as stated: in the wall scenario the car's forward face never passes
\* the wall's near face (carPos.z <= 20 - 0.5/2 - 3/2), and a car whose move
\* the wall vetoed is stopped.
NeverPastWall ==
    /\ carPos.z <= WallStop
    /\ (Vetoed => carSpeed = 0)

\* C5 as stated: with forward held from rest, after frames that sum to t
\* the speed is min(MAX_SPEED, ACCELERATION * t).  The clock started at 0
\* with the car at rest, so t = lastFrame; up to t = 1.5 s the car has
\* covered at most 18 units and no move can have been vetoed.
SpeedIsAccelTimesTime ==
    (keys = {"W"} /\ lastFrame <= 15 * (Scale \div 10))
        => carSpeed = Min(MAX_SPEED, ACCELERATION * lastFrame)

---------------------------------------------------------------------------
(* SpecSteer: the steering scenario.  Forward is held for one 0.25 s frame *)
(* (speed 5), then released; left-steer is pressed and held for frames of  *)
(* 0.1 s, 0.2 s or 0.5 s that sum to one second.                           *)

SpeedUpTime == 25 * (Scale \div 100)

SteerDeltaTimes == {Scale \div 10, 2 * (Scale \div 10), 5 * (Scale \div 10)}

SteerPressW ==
    /\ frame = 1
    /\ keys = {}
    /\ KeyEvent("W", "PRESS")

SteerSpeedUp ==
    /\ frame = 1
    /\ keys = {"W"}
    /\ FrameStep(SpeedUpTime, 2)

SteerReleaseW ==
    /\ frame = 2
    /\ keys = {"W"}
    /\ KeyEvent("W", "RELEASE")

SteerPressA ==
    /\ frame = 2
    /\ keys = {}
    /\ KeyEvent("A", "PRESS")

SteerFrame ==
    /\ keys = {"A"}
    /\ \E dt \in SteerDeltaTimes :
          /\ lastFrame + dt <= SpeedUpTime + Scale
          /\ FrameStep(dt, frame + 1)

SpecSteer ==
    Init /\ [][FirstFrame \/ SteerPressW \/ SteerSpeedUp \/ SteerReleaseW
                 \/ SteerPressA \/ SteerFrame]_vars

\* C6 as stated: left-steer held for frames summing to one second, from
\* forward speed 5 and heading 0, leaves the heading at +TURN_SPEED * 1 s.
SteerOneSecond ==
    (keys = {"A"} /\ lastFrame = SpeedUpTime + Scale) => carYaw = TURN_SPEED * Scale

---------------------------------------------------------------------------
(* SpecCoast: the coasting scenario.  Forward is pressed with the car at   *)
(* rest at the origin and released at any later time; the loop never       *)
(* stops.  A frame with forward held takes 75 ms, a coasting frame 0.5 s.  *)

CoastDriveTime == 75 * (Scale \div 1000)

CoastTime == 5 * (Scale \div 10)

CoastPress ==
    /\ keys = {}
    /\ carSpeed = 0
    /\ carPos = Vec(0, 0, 0)
    /\ KeyEvent("W", "PRESS")

CoastRelease ==
    /\ keys = {"W"}
    /\ KeyEvent("W", "RELEASE")

CoastFrame ==
    FrameStep(IF "W" \in keys THEN CoastDriveTime ELSE CoastTime, 1)

\* the render loop runs until the window closes: an iteration that can run
\* does run
SpecCoast ==
    Init /\ [][CoastFrame \/ CoastPress \/ CoastRelease]_vars /\ WF_vars(CoastFrame)

\* C10 as stated: if from some frame on there is no net accel input, the
\* speed eventually becomes exactly 0 and stays 0.
ComesToRest == <>[](AccelInput(keys) = 0) => <>[](carSpeed = 0)

====
